---- MODULE Spec2Model ----
(***************************************************************************)
(* Motor RMS fault diagnosis (src/app.py): column validation and sample    *)
(* rate estimation (prepare_sheet), rolling RMS and threshold              *)
(* classification (diagnose_faults), the multi-sheet batch loop and the    *)
(* single-sheet script run.                                                *)
(*                                                                         *)
(* Number representation.                                                  *)
(*  - Signal values are integers in units of 0.025, so that the            *)
(*    thresholds 0.5, 0.35 and 0.2 are the integers 20, 14 and 8.          *)
(*  - An RMS value sqrt(mean(v^2)) is the pair                             *)
(*    [ss |-> sum of squares, n |-> number of samples].  The program       *)
(*    holds it as a float64:                                               *)
(*      . a pair whose value is the whole number v (ss = v^2 * n) stands   *)
(*        for the double nearest to the decimal v * 0.025, which is what   *)
(*        sqrt(x * x) gives for the double x; RoundErr(v) is the distance  *)
(*        of that double from the decimal;                                 *)
(*      . the samples of the frames and sheets are multiples of 5 units    *)
(*        (0.125): their squares, sums and whole roots are exact in        *)
(*        float64, and for windows of fewer than 25 samples no RMS value   *)
(*        lies within rounding distance of a threshold without being       *)
(*        equal to it, so the comparisons on the squares decide as the     *)
(*        float comparisons do.                                            *)
(*    Two RMS values whose decimals differ by exactly 0.2 are compared as  *)
(*    the float subtraction and comparison decide (FloatDiffGt).           *)
(*  - Timestamps are whole seconds.  A sample rate is the exact rational   *)
(*    [num, den] (Hz); a median interval is a rational or NaN.             *)
(*  - Column labels are sequences of characters, distinct up to case       *)
(*    within a sheet.                                                      *)
(***************************************************************************)
EXTENDS Integers, Sequences, FiniteSets

VARIABLES
    total,              \* len(xls.sheet_names) of the uploaded workbook
    workbook,           \* the sheets the batch loop has read, in workbook order
    df_raw,             \* the sheet read last (pd.read_excel)
    mode,               \* "none" | "multi" | "single"   (all_sheets_mode)
    pc,                 \* position of the script run
    idx,                \* number of sheets the batch loop has handled
    max_rows,           \* the row cap N entered by the user
    sheet_name,         \* single-sheet mode: the selected sheet
    duration,           \* single-sheet mode: the selected data window
    df_use,             \* rows handed to diagnose_faults by the batch loop
    df_filtered,        \* rows selected in single-sheet mode
    sr,                 \* sample rate estimate (rational, Hz)
    faults,             \* result of the last diagnose_faults call
    legacy_apply,       \* the installed pandas is older than 1.5
    diagnosis_summary,  \* the batch's aggregate result
    crashed,            \* an exception escaped the script run
    win,                \* diagnose_faults: window length in samples
    rms,                \* diagnose_faults: the x_rms, y_rms, z_rms columns
    row,                \* diag: one row of RMS statistics
    label               \* diag: value returned for that row

vars == <<total, workbook, df_raw, mode, pc, idx, max_rows, sheet_name, duration, df_use, df_filtered, sr, faults,
          legacy_apply, diagnosis_summary, crashed, win, rms, row, label>>

appVars == <<total, workbook, df_raw, mode, idx, max_rows, sheet_name, duration, df_filtered, legacy_apply,
             diagnosis_summary, crashed>>

(***************************************************************************)
(* Bounds of the model.                                                    *)
(***************************************************************************)
MaxSheets == 3      \* sheets in a workbook
MaxRows == 2        \* raw rows in a sheet of a workbook
MaxDfRows == 3      \* rows of a frame handed directly to diagnose_faults
MaxCapRows == 12    \* rows of the long sheet used for the row cap

(***************************************************************************)
(* Program constants.                                                      *)
(***************************************************************************)
WindowSeconds == 60         \* int(sample_rate * 60)
FallbackWindow == 10        \* ... else 10
RadialThreshold == 20       \* 0.5
AxialThreshold == 14        \* 0.35
LoosenessThreshold == 8     \* 0.2
MinCap == 10                \* number_input(min_value=10)
DefaultCap == 500           \* number_input(value=500)
DaySeconds == 86400         \* pd.Timedelta(days=1)
WeekSeconds == 604800       \* pd.Timedelta(days=7)

Abs(v) == IF v < 0 THEN -v ELSE v
Max(a, b) == IF a >= b THEN a ELSE b
Min(a, b) == IF a <= b THEN a ELSE b

\* df.tail(n): the last n rows (all rows when there are fewer)
Tail_n(s, n) == IF Len(s) <= n THEN s ELSE SubSeq(s, Len(s) - n + 1, Len(s))

(***************************************************************************)
(* diagnose_faults                                                         *)
(***************************************************************************)
Rate(n, d) == [num |-> n, den |-> d]

\* defective variant: no separate case for the rate 0
Window_NoFallback(sample_rate) ==
    Max(1, (sample_rate.num * WindowSeconds) \div sample_rate.den)
\* win = max(1, int(sample_rate * 60)) if sample_rate else 10
Window(sample_rate) ==
    IF sample_rate.num # 0
    THEN Max(1, (sample_rate.num * WindowSeconds) \div sample_rate.den)
    ELSE FallbackWindow

RECURSIVE SumSq(_, _, _)
\* sum of v[k]^2 for k in lo..hi
SumSq(v, lo, hi) == IF lo > hi THEN 0 ELSE v[hi] * v[hi] + SumSq(v, lo, hi - 1)

\* np.sqrt(np.mean(v ** 2)) of the window lo..hi, as an exact pair
RmsOf(v, lo, hi) == [ss |-> SumSq(v, lo, hi), n |-> hi - lo + 1]

\* defective variant: a window centered on the row
RollingRms_Centered(v, w) ==
    [i \in 1..Len(v) |-> RmsOf(v, Max(1, i - (w \div 2)), Min(Len(v), i + ((w - 1) \div 2)))]
\* series.rolling(window=w, min_periods=1).apply(rms): the trailing window
\* of w rows that ends with row i, shorter at the start of the series
RollingRms(v, w) ==
    [i \in 1..Len(v) |-> RmsOf(v, Max(1, i - w + 1), i)]

Column(df, axis) == [i \in 1..Len(df) |-> df[i][axis]]

RECURSIVE Pow2(_)
Pow2(k) == IF k = 0 THEN 1 ELSE 2 * Pow2(k - 1)

RECURSIVE ExponentOf(_, _, _)
\* e + the exponent of num / (40 * den)
ExponentOf(num, den, e) ==
    IF num >= 80 * den THEN ExponentOf(num, 2 * den, e + 1)
    ELSE IF num < 40 * den THEN ExponentOf(2 * num, den, e - 1)
    ELSE e
\* float64 exponent e of the decimal v * 0.025, v >= 1: 2^e <= v/40 < 2^(e+1)
Exponent(v) == ExponentOf(v, 1, 0)

\* the significand of the decimal v/40 is v * 2^(49-e) / 5 before rounding to
\* 53 bits; Remainder(v) is the remainder of that division by 5
Remainder(v) == ((v % 5) * Pow2((49 - Exponent(v)) % 4)) % 5
\* the last bit of the significand rounded to nearest
MantissaOdd(v) ==
    IF Remainder(v) <= 2 THEN Remainder(v) % 2 = 1 ELSE (5 - Remainder(v)) % 2 = 1
\* float(v * 0.025) - v * 0.025, in units of 2^-58 / 5
RoundErr(v) ==
    IF v = 0 THEN 0
    ELSE (IF Remainder(v) <= 2 THEN 0 - Remainder(v) ELSE 5 - Remainder(v)) * Pow2(6 + Exponent(v))
\* the distance of the double v * 0.025 to the next double, in the same units
Ulp(v) == 5 * Pow2(6 + Exponent(v))

\* hi - lo > thr in float64 for the doubles nearest to the decimals hi, lo and
\* thr with hi - lo = thr: the exact difference of the two doubles is rounded
\* to nearest, ties to even, and compared with the double thr
FloatDiffGt(hi, lo, thr) ==
    LET g == RoundErr(hi) - RoundErr(lo) - RoundErr(thr)
    IN  2 * g > Ulp(thr) \/ (2 * g = Ulp(thr) /\ MantissaOdd(thr))

RECURSIVE RootFrom(_, _)
RootFrom(k, v) == IF (v + 1) * (v + 1) > k THEN v ELSE RootFrom(k, v + 1)
\* the whole part of the rms value r
Root(r) == RootFrom(r.ss \div r.n, 0)
\* the rms value r is a whole number of units
Whole(r) == Root(r) * Root(r) * r.n = r.ss

\* rms value r > thr; the doubles of equal decimals are equal
RmsGt(r, thr) == r.ss > thr * thr * r.n
\* sqrt(hi) - sqrt(lo) > sqrt(t) for hi >= lo >= 0, on the squares
SqrtDiffGt(hi, lo, t) == LET d == hi - lo - t IN d > 0 /\ d * d > 4 * t * lo
\* sqrt(hi) - sqrt(lo) = sqrt(t)
SqrtDiffEq(hi, lo, t) == LET d == hi - lo - t IN d >= 0 /\ d * d = 4 * t * lo
\* abs(a - b) > thr for rms values a, b
AbsDiffGt(a, b, thr) ==
    LET A == IF a.n = b.n THEN a.ss ELSE a.ss * b.n
        B == IF a.n = b.n THEN b.ss ELSE b.ss * a.n
        T == IF a.n = b.n THEN thr * thr * a.n ELSE thr * thr * a.n * b.n
        hi == Max(A, B)
        lo == Min(A, B)
    IN  IF SqrtDiffEq(hi, lo, T) /\ Whole(a) /\ Whole(b)
        THEN FloatDiffGt(Max(Root(a), Root(b)), Min(Root(a), Root(b)), thr)
        ELSE SqrtDiffGt(hi, lo, T)

None == [isnull |-> TRUE, text |-> ""]
Str(s) == [isnull |-> FALSE, text |-> s]

RECURSIVE Join(_)
\* ", ".join(issues)
Join(issues) ==
    IF Len(issues) = 0 THEN ""
    ELSE IF Len(issues) = 1 THEN issues[1]
    ELSE issues[1] \o ", " \o Join(Tail(issues))

\* the list built by diag's three independent if statements
Issues(r) ==
    (IF RmsGt(r.x_rms, RadialThreshold) \/ RmsGt(r.y_rms, RadialThreshold)
        THEN <<"Radial High">> ELSE <<>>)
    \o (IF RmsGt(r.z_rms, AxialThreshold) THEN <<"Axial High">> ELSE <<>>)
    \o (IF AbsDiffGt(r.x_rms, r.y_rms, LoosenessThreshold) THEN <<"Looseness">> ELSE <<>>)

\* defective variant: x_rms compared with >= instead of >
diag_NonStrict(r) ==
    LET issues ==
          (IF r.x_rms.ss >= RadialThreshold * RadialThreshold * r.x_rms.n
                 \/ RmsGt(r.y_rms, RadialThreshold)
              THEN <<"Radial High">> ELSE <<>>)
          \o (IF RmsGt(r.z_rms, AxialThreshold) THEN <<"Axial High">> ELSE <<>>)
          \o (IF AbsDiffGt(r.x_rms, r.y_rms, LoosenessThreshold) THEN <<"Looseness">> ELSE <<>>)
    IN  IF issues # <<>> THEN Str(Join(issues)) ELSE None
\* diag(row): the joined labels, None when no condition holds
diag(r) ==
    LET issues == Issues(r)
    IN  IF issues # <<>> THEN Str(Join(issues)) ELSE None

\* the frame after the three _rms columns were added
RmsTable(df, w) ==
    LET xr == RollingRms(Column(df, "x"), w)
        yr == RollingRms(Column(df, "y"), w)
        zr == RollingRms(Column(df, "z"), w)
    IN  [i \in 1..Len(df) |-> [x_rms |-> xr[i], y_rms |-> yr[i], z_rms |-> zr[i]]]

RECURSIVE NotNaRows(_, _, _)
\* df.loc[df["Diagnosis"].notna(), ["t", "Diagnosis"]], rows i..Len(df)
NotNaRows(df, table, i) ==
    IF i > Len(df) THEN <<>>
    ELSE LET d == diag(table[i])
         IN  (IF d.isnull THEN <<>> ELSE <<[t |-> df[i].t, Diagnosis |-> d.text]>>)
             \o NotNaRows(df, table, i + 1)

\* diagnose_faults(df, sample_rate): [raised, faults].  For a frame without
\* rows the outcome depends on the installed pandas, which the repository
\* does not pin: before 1.5 df.apply(diag, axis=1) returns a frame, and
\* assigning it to the single column "Diagnosis" raises ValueError; from 1.5
\* on it returns a Series without values and the result is a frame without
\* rows.
diagnose_faults(df, sample_rate) ==
    IF Len(df) = 0 /\ legacy_apply THEN [raised |-> TRUE, faults |-> <<>>]
    ELSE [raised |-> FALSE,
          faults |-> NotNaRows(df, RmsTable(df, Window(sample_rate)), 1)]

(***************************************************************************)
(* prepare_sheet                                                           *)
(***************************************************************************)
\* spreadsheet cells
Null == [kind |-> "null", v |-> 0]
Text == [kind |-> "text", v |-> 0]       \* a string no timestamp parses from
Ts(n) == [kind |-> "time", v |-> n]      \* a timestamp, in seconds
Num(n) == [kind |-> "num", v |-> n]

\* a column label as its sequence of characters
TimeLabel(t, axis) == <<t, "(", axis, ")">>
ValueLabel(axis) == <<axis>>

\* str.lower() of one character
LowerChar(ch) ==
    CASE ch = "A" -> "a" [] ch = "B" -> "b" [] ch = "C" -> "c" [] ch = "D" -> "d"
      [] ch = "E" -> "e" [] ch = "F" -> "f" [] ch = "G" -> "g" [] ch = "H" -> "h"
      [] ch = "I" -> "i" [] ch = "J" -> "j" [] ch = "K" -> "k" [] ch = "L" -> "l"
      [] ch = "M" -> "m" [] ch = "N" -> "n" [] ch = "O" -> "o" [] ch = "P" -> "p"
      [] ch = "Q" -> "q" [] ch = "R" -> "r" [] ch = "S" -> "s" [] ch = "T" -> "t"
      [] ch = "U" -> "u" [] ch = "V" -> "v" [] ch = "W" -> "w" [] ch = "X" -> "x"
      [] ch = "Y" -> "y" [] ch = "Z" -> "z"
      [] OTHER -> ch
\* c.lower()
Lower(c) == [i \in 1..Len(c) |-> LowerChar(c[i])]

expected == {TimeLabel("t", "x"), ValueLabel("x"), TimeLabel("t", "y"), ValueLabel("y"),
             TimeLabel("t", "z"), ValueLabel("z")}

\* any(col not in df.columns for col in expected), after the rename
MissingColumn(columns) == \E col \in expected : col \notin {Lower(c) : c \in columns}

\* df[[axial_t, axial_v] + radials].dropna()
NoNull(r) == r.t.kind # "null" /\ r.x.kind # "null" /\ r.y.kind # "null" /\ r.z.kind # "null"
\* pd.to_datetime(errors="coerce") followed by dropna(subset=["t"])
Parses(r) == r.t.kind = "time"
Plain(r) == [t |-> r.t.v, x |-> r.x.v, y |-> r.y.v, z |-> r.z.v]

RECURSIVE Plains(_)
Plains(rows) == IF rows = <<>> THEN <<>> ELSE <<Plain(Head(rows))>> \o Plains(Tail(rows))

RECURSIVE InsertByT(_, _)
\* r placed after every row of the sorted sequence s with t <= r.t
InsertByT(s, r) ==
    IF s = <<>> THEN <<r>>
    ELSE IF s[Len(s)].t <= r.t THEN Append(s, r)
    ELSE Append(InsertByT(SubSeq(s, 1, Len(s) - 1), r), s[Len(s)])

RECURSIVE SortByT(_)
\* df.sort_values("t"): ascending, rows with equal t keep their order
SortByT(s) ==
    IF s = <<>> THEN <<>>
    ELSE InsertByT(SortByT(SubSeq(s, 1, Len(s) - 1)), s[Len(s)])

RECURSIVE InsertInt(_, _)
InsertInt(s, a) ==
    IF s = <<>> THEN <<a>>
    ELSE IF s[Len(s)] <= a THEN Append(s, a)
    ELSE Append(InsertInt(SubSeq(s, 1, Len(s) - 1), a), s[Len(s)])

RECURSIVE SortInts(_)
SortInts(s) ==
    IF s = <<>> THEN <<>>
    ELSE InsertInt(SortInts(SubSeq(s, 1, Len(s) - 1)), s[Len(s)])

\* df_use["t"].diff().dt.total_seconds(), without the leading NaN
Diffs(df) == [i \in 1..(Len(df) - 1) |-> df[i + 1].t - df[i].t]

NaN == [isnan |-> TRUE, num |-> 0, den |-> 1]
\* Series.median(): NaN without values, the middle value, or the mean of
\* the two middle values
Median(d) ==
    LET s == SortInts(d)
        k == Len(s)
    IN  IF k = 0 THEN NaN
        ELSE IF k % 2 = 1 THEN [isnan |-> FALSE, num |-> s[(k + 1) \div 2], den |-> 1]
        ELSE [isnan |-> FALSE, num |-> s[k \div 2] + s[k \div 2 + 1], den |-> 2]

\* defective variant: 1 / dt whatever dt is (NaN as 0/0, 1/0 as den = 0)
SampleRate_NoGuard(dt) ==
    IF dt.isnan THEN Rate(0, 0) ELSE Rate(dt.den, dt.num)
\* sr = 1 / dt if dt and dt > 0 else 0
SampleRate(dt) ==
    IF ~dt.isnan /\ dt.num # 0 /\ dt.num > 0 THEN Rate(dt.den, dt.num) ELSE Rate(0, 1)

\* prepare_sheet(df_raw): None ([ok |-> FALSE]) or (df_use, sr)
prepare_sheet(raw) ==
    IF MissingColumn(raw.columns)
    THEN [ok |-> FALSE, df_use |-> <<>>, sr |-> Rate(0, 1)]
    ELSE LET kept == SelectSeq(SelectSeq(raw.rows, NoNull), Parses)
             use == SortByT(Plains(kept))
         IN  [ok |-> TRUE, df_use |-> use, sr |-> SampleRate(Median(Diffs(use)))]

(***************************************************************************)
(* Input sets                                                              *)
(***************************************************************************)
RECURSIVE SeqsUpTo(_, _)
\* the sequences over S of length at most n
SeqsUpTo(S, n) ==
    IF n = 0 THEN {<<>>}
    ELSE LET shorter == SeqsUpTo(S, n - 1)
         IN  shorter \cup {Append(s, e) : s \in {q \in shorter : Len(q) = n - 1}, e \in S}

ValidColumns == {TimeLabel("T", "X"), ValueLabel("x"), TimeLabel("t", "y"), ValueLabel("Y"),
                 TimeLabel("T", "z"), ValueLabel("z")}
ShortColumns == {TimeLabel("t", "x"), ValueLabel("x"), TimeLabel("t", "y"), ValueLabel("y"),
                 TimeLabel("t", "z"), <<"N", "o", "t", "e", "s">>}

Sheet(cols, ok, rows) == [columns |-> cols, readable |-> ok, rows |-> rows]
NoSheet == Sheet({}, FALSE, <<>>)

\* rows of RMS statistics for diag: whole values v as v^2/1 and 2v^2/2,
\* and one value that is no whole number; x_rms 0.1, 0.5, 0.6, 0.9, 1.0,
\* y_rms 0.1, 0.3, 0.5, 0.55, 0.7, 0.8, z_rms 0.1, 0.35, 0.4
StatVal(v) == {[ss |-> v * v, n |-> 1], [ss |-> 2 * v * v, n |-> 2]}
XStats == StatVal(4) \cup StatVal(20) \cup StatVal(24) \cup StatVal(36) \cup StatVal(40)
              \cup {[ss |-> 801, n |-> 2]}
YStats == StatVal(4) \cup {[ss |-> v * v, n |-> 1] : v \in {12, 20, 22, 28, 32}}
ZStats == {[ss |-> 16, n |-> 1], [ss |-> 196, n |-> 1], [ss |-> 392, n |-> 2], [ss |-> 256, n |-> 1]}
StatRows == {[x_rms |-> a, y_rms |-> b, z_rms |-> c] : a \in XStats, b \in YStats, c \in ZStats}
NoRow == [x_rms |-> [ss |-> 0, n |-> 1], y_rms |-> [ss |-> 0, n |-> 1], z_rms |-> [ss |-> 0, n |-> 1]]

\* frames for diagnose_faults: rows 30 s apart, in ascending order
Samples == {[x |-> a, y |-> b, z |-> c] : a \in {-25, 5, 20}, b \in {5, 25}, c \in {5, 15}}
Frame(s) == [i \in 1..Len(s) |-> [t |-> 30 * i, x |-> s[i].x, y |-> s[i].y, z |-> s[i].z]]
Frames == {Frame(s) : s \in SeqsUpTo(Samples, MaxDfRows)}
Rates == {Rate(0, 1), Rate(1, 120), Rate(1, 61), Rate(1, 60), Rate(2, 119),
          Rate(1, 30), Rate(1, 20), Rate(2, 1)}

\* raw sheets for prepare_sheet
RawRows == {[t |-> a, x |-> b, y |-> Num(5), z |-> Num(5)] :
               a \in {Ts(0), Ts(30), Ts(90), Text}, b \in {Num(5), Null}}
RawSheets == {Sheet(c, TRUE, r) : c \in {ValidColumns, ShortColumns},
                                  r \in SeqsUpTo(RawRows, MaxDfRows)}

Idle ==
    /\ workbook = <<>> /\ mode = "none" /\ idx = 0 /\ max_rows = 0 /\ sheet_name = 0 /\ duration = "All data"
    /\ df_filtered = <<>> /\ diagnosis_summary = <<>> /\ crashed = FALSE

(***************************************************************************)
(* Main app logic                                                          *)
(***************************************************************************)
\* defective variant: the oldest n rows
Cap_Head(df, n) == SubSeq(SortByT(df), 1, Min(n, Len(df)))
\* df.sort_values("t").tail(max_rows): the most recent n rows
Cap(df, n) == Tail_n(SortByT(df), n)

\* defective variant: the exception is raised again
Propagates_Reraise(raised) == raised
\* try: ... except Exception: continue -- does an exception raised by the
\* loop body leave the loop?
Propagates(raised) == FALSE

\* defective variants: an entry also for an empty diagnosis; the new entry
\* replaces the summary
Collect_Always(summary, sheet, f) == Append(summary, [sheet |-> sheet, faults |-> f])
Collect_Replace(summary, sheet, f) ==
    IF f # <<>> THEN <<[sheet |-> sheet, faults |-> f]>> ELSE summary
\* if not faults.empty: diagnosis_summary.append({"sheet": ..., "faults": ...})
Collect(summary, sheet, f) ==
    IF f # <<>> THEN Append(summary, [sheet |-> sheet, faults |-> f]) ELSE summary

\* the body of the try block for one sheet, given the loop's variables:
\* raised tells whether it ended in an exception (a None from prepare_sheet
\* ends it with continue, without one)
TryBody(raw, sheet, n, summary, old_use, old_sr, old_faults) ==
    IF ~raw.readable
    THEN [raised |-> TRUE, summary |-> summary,
          df_use |-> old_use, sr |-> old_sr, faults |-> old_faults]
    ELSE LET prepared == prepare_sheet(raw)
         IN  IF ~prepared.ok
             THEN [raised |-> FALSE, summary |-> summary,
                   df_use |-> old_use, sr |-> old_sr, faults |-> old_faults]
             ELSE LET capped == Cap(prepared.df_use, n)
                      res == diagnose_faults(capped, prepared.sr)
                  IN  IF res.raised
                      THEN [raised |-> TRUE, summary |-> summary,
                            df_use |-> capped, sr |-> prepared.sr, faults |-> old_faults]
                      ELSE [raised |-> FALSE,
                            summary |-> Collect(summary, sheet, res.faults),
                            df_use |-> capped, sr |-> prepared.sr, faults |-> res.faults]

Durations == {"Last 24 hours", "Last 7 days", "All data"}

RECURSIVE MaxT(_)
MaxT(df) == IF Len(df) = 1 THEN df[1].t ELSE Max(df[Len(df)].t, MaxT(SubSeq(df, 1, Len(df) - 1)))
RECURSIVE MinT(_)
MinT(df) == IF Len(df) = 1 THEN df[1].t ELSE Min(df[Len(df)].t, MinT(SubSeq(df, 1, Len(df) - 1)))

\* df_use[df_use["t"] >= start_time]; without rows latest_time is NaT and
\* nothing is selected
DurationFilter(df, dur) ==
    IF df = <<>> THEN <<>>
    ELSE LET latest_time == MaxT(df)
             start_time == CASE dur = "Last 24 hours" -> latest_time - DaySeconds
                             [] dur = "Last 7 days" -> latest_time - WeekSeconds
                             [] OTHER -> MinT(df)
             Keep(r) == r.t >= start_time
         IN  SelectSeq(df, Keep)

\* st.number_input(min_value=10, value=v) raises when v < min_value
NumberInputRaises(v) == v < MinCap

\* values the user enters for the row cap: the least one allowed and the
\* default of multi-sheet mode
CapInputs == {MinCap, DefaultCap}

\* sheets of a workbook
FaultRow == [t |-> Ts(30), x |-> Num(25), y |-> Num(5), z |-> Num(5)]
QuietRow == [t |-> Ts(0), x |-> Num(5), y |-> Num(5), z |-> Num(5)]

TextRow == [t |-> Text, x |-> Num(25), y |-> Num(5), z |-> Num(5)]
NullRow == [t |-> Ts(30), x |-> Null, y |-> Num(5), z |-> Num(5)]

\* f rows with a fault followed by q earlier rows without one
GoodRows(f, q) == [i \in 1..(f + q) |-> IF i <= f THEN FaultRow ELSE QuietRow]

\* an unreadable sheet, a sheet without the z column, a sheet whose rows are
\* all dropped, and the sheets with up to MaxRows good rows
Sheets ==
    {Sheet({}, FALSE, <<>>), Sheet(ShortColumns, TRUE, <<FaultRow>>),
     Sheet(ValidColumns, TRUE, <<TextRow, NullRow>>)}
    \cup {Sheet(ValidColumns, TRUE, GoodRows(c[1], c[2])) :
             c \in {d \in (0..MaxRows) \X (0..MaxRows) : d[1] + d[2] <= MaxRows}}

\* long sheets: a recent rows (a day later), then b old rows, then c recent
\* rows, one second apart, in ascending or in descending order of time
LongRows(a, b, c, rev) ==
    [i \in 1..(a + b + c) |->
        [t |-> Ts((IF i <= a \/ i > a + b THEN 90000 ELSE 0) + (IF rev THEN 100 - i ELSE i)),
         x |-> Num(IF i % 2 = 0 THEN 25 ELSE 5), y |-> Num(5), z |-> Num(5)]]
LongSheets ==
    {Sheet(ValidColumns, TRUE, LongRows(a, b, c, rev)) :
        a \in 0..MaxCapRows, b \in 0..MaxCapRows, c \in {0, 1}, rev \in BOOLEAN}
SheetsOfLength(S, lo, hi) == {s \in S : Len(s.rows) >= lo /\ Len(s.rows) <= hi}

Fresh ==
    /\ Idle /\ pc = "idle" /\ df_raw = NoSheet /\ legacy_apply \in BOOLEAN
    /\ df_use = <<>> /\ sr = Rate(0, 1) /\ faults = <<>> /\ win = 0 /\ rms = <<>>
    /\ row = NoRow /\ label = None

\* "Run Diagnosis for All Sheets" pressed with the cap n
RunAll(n) ==
    /\ pc = "idle"
    /\ mode' = "multi"
    /\ max_rows' = n
    /\ diagnosis_summary' = <<>>
    /\ idx' = 0
    /\ pc' = "loop"
    /\ UNCHANGED <<total, workbook, df_raw, sheet_name, duration, df_use, df_filtered,
                   sr, faults, legacy_apply, crashed, win, rms, row, label>>

\* one iteration of the for loop over xls.sheet_names; s is what
\* pd.read_excel finds in the sheet
ProcessSheet(s) ==
    /\ pc = "loop" /\ idx < total
    /\ workbook' = Append(workbook, s)
    /\ df_raw' = IF s.readable THEN s ELSE df_raw
    /\ LET sheet == idx + 1
           body == TryBody(s, sheet, max_rows, diagnosis_summary, df_use, sr, faults)
       IN  /\ diagnosis_summary' = body.summary
           /\ df_use' = body.df_use
           /\ sr' = body.sr
           /\ faults' = body.faults
           /\ IF body.raised /\ Propagates(body.raised)
              THEN crashed' = TRUE /\ pc' = "crashed" /\ idx' = idx
              ELSE crashed' = crashed /\ pc' = "loop" /\ idx' = idx + 1
    /\ UNCHANGED <<total, mode, max_rows, sheet_name, duration, df_filtered,
                   legacy_apply, win, rms, row, label>>

\* the loop is exhausted: the progress bar is removed and the summary shown
FinishAll ==
    /\ pc = "loop" /\ idx = total
    /\ pc' = "done"
    /\ UNCHANGED <<appVars, df_use, sr, faults, win, rms, row, label>>

\* one run of the script in single-sheet mode: the selected sheet name and
\* data window, s what pd.read_excel finds in the sheet; the row cap and
\* whether "Run Diagnosis" is pressed are chosen once the widgets are shown
SingleRun(name, dur, s) ==
    /\ pc = "idle"
    /\ mode' = "single"
    /\ sheet_name' = name
    /\ UNCHANGED <<total, workbook, idx, diagnosis_summary, legacy_apply, win, rms, row, label>>
    /\ IF ~s.readable
       THEN /\ crashed' = TRUE /\ pc' = "crashed"
            /\ UNCHANGED <<df_raw, duration, max_rows, df_use, df_filtered, sr, faults>>
       ELSE /\ df_raw' = s
            /\ LET prepared == prepare_sheet(s)
               IN  IF ~prepared.ok
                   THEN /\ pc' = "warning"
                        /\ UNCHANGED <<duration, max_rows, df_use, df_filtered, sr, faults, crashed>>
                   ELSE LET selected == DurationFilter(prepared.df_use, dur)
                        IN  /\ df_use' = prepared.df_use
                            /\ sr' = prepared.sr
                            /\ duration' = dur
                            /\ IF NumberInputRaises(Len(selected))
                               THEN /\ df_filtered' = selected
                                    /\ crashed' = TRUE /\ pc' = "crashed"
                                    /\ UNCHANGED <<max_rows, faults>>
                               ELSE \E n \in CapInputs \cup {Len(selected)}, clicked \in BOOLEAN :
                                    /\ max_rows' = n
                                    /\ df_filtered' = Cap(selected, n)
                                    /\ IF ~clicked
                                       THEN pc' = "ready" /\ UNCHANGED <<faults, crashed>>
                                       ELSE LET res == diagnose_faults(Cap(selected, n), prepared.sr)
                                            IN  IF res.raised
                                                THEN /\ crashed' = TRUE /\ pc' = "crashed"
                                                     /\ UNCHANGED faults
                                                ELSE /\ faults' = res.faults
                                                     /\ pc' = "diagnosed"
                                                     /\ UNCHANGED crashed

\* a workbook of 1..MaxSheets sheets was uploaded
Init == Fresh /\ total \in 1..MaxSheets

\* the sheets have fewer rows than any cap: the default cap is entered
Next ==
    \/ RunAll(DefaultCap)
    \/ \E s \in Sheets : ProcessSheet(s)
    \/ FinishAll
    \/ \E name \in 1..total, dur \in Durations, s \in Sheets : SingleRun(name, dur, s)

Spec == Init /\ [][Next]_vars

\* the same program on workbooks of long sheets
CapNext ==
    \/ \E n \in CapInputs : RunAll(n)
    \/ \E s \in SheetsOfLength(LongSheets, MaxCapRows - 1, MaxCapRows) : ProcessSheet(s)
    \/ FinishAll
    \/ \E name \in 1..total, dur \in Durations,
          s \in SheetsOfLength(LongSheets, MaxCapRows - 1, MaxCapRows) : SingleRun(name, dur, s)

CapInit == Fresh /\ total = 1

CapSpec == CapInit /\ [][CapNext]_vars

(***************************************************************************)
(* diag applied to one row of statistics                                   *)
(***************************************************************************)
DiagInit ==
    /\ Idle /\ total = 0 /\ legacy_apply = FALSE /\ df_raw = NoSheet /\ df_use = <<>> /\ sr = Rate(0, 1) /\ faults = <<>>
    /\ win = 0 /\ rms = <<>>
    /\ row \in StatRows /\ label = None /\ pc = "input"

DiagCall ==
    /\ pc = "input"
    /\ label' = diag(row)
    /\ pc' = "output"
    /\ UNCHANGED <<appVars, df_use, sr, faults, win, rms, row>>

DiagSpec == DiagInit /\ [][DiagCall]_vars

(***************************************************************************)
(* diagnose_faults applied to one frame                                    *)
(***************************************************************************)
DfInit ==
    /\ Idle /\ total = 0 /\ legacy_apply \in BOOLEAN /\ df_raw = NoSheet /\ faults = <<>> /\ win = 0 /\ rms = <<>>
    /\ row = NoRow /\ label = None
    /\ df_use \in Frames /\ sr \in Rates /\ pc = "input"

DiagnoseFaultsCall ==
    /\ pc = "input"
    /\ LET res == diagnose_faults(df_use, sr)
       IN  /\ win' = Window(sr)
           /\ rms' = RmsTable(df_use, Window(sr))
           /\ faults' = res.faults
           /\ pc' = IF res.raised THEN "raised" ELSE "output"
    /\ UNCHANGED <<appVars, df_use, sr, row, label>>

DfSpec == DfInit /\ [][DiagnoseFaultsCall]_vars

(***************************************************************************)
(* prepare_sheet applied to one raw sheet                                  *)
(***************************************************************************)
PrepInit ==
    /\ Idle /\ total = 0 /\ legacy_apply = FALSE /\ df_use = <<>> /\ sr = Rate(0, 1) /\ faults = <<>>
    /\ win = 0 /\ rms = <<>> /\ row = NoRow /\ label = None
    /\ df_raw \in RawSheets
    /\ pc = "input"

PrepareSheetCall ==
    /\ pc = "input"
    /\ LET prepared == prepare_sheet(df_raw)
       IN  /\ df_use' = prepared.df_use
           /\ sr' = prepared.sr
           /\ pc' = IF prepared.ok THEN "output" ELSE "invalid"
    /\ UNCHANGED <<appVars, faults, win, rms, row, label>>

PrepSpec == PrepInit /\ [][PrepareSheetCall]_vars

(***************************************************************************)
(* Properties of diag, diagnose_faults and prepare_sheet                   *)
(***************************************************************************)
\* the rms value r is the whole number v
IsRms(r, v) == v >= 0 /\ r.ss = v * v * r.n

LabelTexts ==
    {"Radial High", "Axial High", "Looseness", "Radial High, Axial High",
     "Radial High, Looseness", "Axial High, Looseness",
     "Radial High, Axial High, Looseness"}

\* the joined text for the labels whose condition holds, in the fixed order
ExpectedText(radial, axial, loose) ==
    CASE radial /\ axial /\ loose -> "Radial High, Axial High, Looseness"
      [] radial /\ axial /\ ~loose -> "Radial High, Axial High"
      [] radial /\ ~axial /\ loose -> "Radial High, Looseness"
      [] radial /\ ~axial /\ ~loose -> "Radial High"
      [] ~radial /\ axial /\ loose -> "Axial High, Looseness"
      [] ~radial /\ axial /\ ~loose -> "Axial High"
      [] ~radial /\ ~axial /\ loose -> "Looseness"
      [] OTHER -> ""

StatRange == 0..40

\* C3: for a row whose statistics are the doubles nearest to the decimals
\* vx, vy, vz, diag returns exactly the labels of the conditions that hold of
\* those doubles, joined in the order radial, axial, looseness, and None when
\* none holds.  Radial and axial: vx > 0.5 or vy > 0.5, vz > 0.35, strict
\* (equal decimals are equal doubles, so a statistic at 0.5 or 0.35 is not
\* labelled).  Looseness: the float difference of the two doubles is
\* greater than the double 0.2.  For decimals that differ by more (less)
\* than 0.2 it is (is not); for decimals that differ by exactly 0.2 the two
\* doubles differ from the double 0.2 by gap, and the difference rounded to
\* the nearest double is greater only when gap is more than half the
\* distance to the next double: two doubles that differ by exactly the
\* double 0.2 (gap = 0, as 0.5 and 0.3) are not labelled.
C3_LabelsExactlyTriggered ==
    pc = "output" =>
        \A vx \in StatRange, vy \in StatRange, vz \in StatRange :
            (IsRms(row.x_rms, vx) /\ IsRms(row.y_rms, vy) /\ IsRms(row.z_rms, vz)) =>
                LET radial == vx > RadialThreshold \/ vy > RadialThreshold
                    axial == vz > AxialThreshold
                    hi == IF vx >= vy THEN vx ELSE vy
                    lo == IF vx >= vy THEN vy ELSE vx
                    gap == RoundErr(hi) - RoundErr(lo) - RoundErr(LoosenessThreshold)
                    loose == \/ hi - lo > LoosenessThreshold
                             \/ hi - lo = LoosenessThreshold /\ 2 * gap > Ulp(LoosenessThreshold)
                IN  /\ IF radial \/ axial \/ loose
                       THEN label = Str(ExpectedText(radial, axial, loose))
                       ELSE label = None
                    /\ (hi - lo = LoosenessThreshold /\ gap <= 0) =>
                           (label.isnull \/ label.text \in {"Radial High", "Axial High",
                                                            "Radial High, Axial High"})

\* x_rms = 0.6, y_rms = 0.1, z_rms = 0.1 classified
C3_Witness ==
    /\ pc = "output"
    /\ IsRms(row.x_rms, 24) /\ IsRms(row.y_rms, 4) /\ IsRms(row.z_rms, 4)
    /\ label = Str("Radial High, Looseness")

\* some threshold condition holds for a row of statistics
Triggers(r) ==
    \/ RmsGt(r.x_rms, RadialThreshold) \/ RmsGt(r.y_rms, RadialThreshold)
    \/ RmsGt(r.z_rms, AxialThreshold)
    \/ AbsDiffGt(r.x_rms, r.y_rms, LoosenessThreshold)

\* C4: every row of the frame is returned, a row that triggers no condition
\* with the label "Normal".
C4_NormalSentinel ==
    pc = "output" =>
        /\ Len(faults) = Len(df_use)
        /\ \A i \in 1..Len(df_use) :
               ~Triggers(rms[i]) => faults[i] = [t |-> df_use[i].t, Diagnosis |-> "Normal"]

\* w = max(1, floor(60 * rate)) for the rational rate
IsFloorWindow(w, rate) ==
    LET q == WindowSeconds * rate.num
    IN  /\ w >= 1
        /\ q >= rate.den => (w * rate.den <= q /\ q < (w + 1) * rate.den)
        /\ q < rate.den => w = 1

\* C5 as claimed: the window is max(1, floor(sample_rate * 60)) for every
\* rate, the undetermined rate 0 included (window 1).
C5_WindowFloorAlways ==
    pc \in {"output", "raised"} => IsFloorWindow(win, sr)

\* C5 amended: for a rate > 0 the window is max(1, floor(sample_rate * 60))
\* (1 for a rate below 1/60 Hz); for the undetermined rate 0 it is 10
\* samples; it is always an integer >= 1.
C5_WindowFloorOrFallback ==
    pc \in {"output", "raised"} =>
        /\ win \in Nat /\ win >= 1
        /\ sr.num > 0 => IsFloorWindow(win, sr)
        /\ sr.num = 0 => win = FallbackWindow

C5_Witness ==
    /\ pc = "output" /\ sr.num = 0 /\ win = FallbackWindow /\ Len(df_use) > 0

RECURSIVE SetSumSq(_, _)
\* sum of v[k]^2 over the index set S
SetSumSq(v, S) ==
    IF S = {} THEN 0
    ELSE LET k == CHOOSE j \in S : TRUE
         IN  v[k] * v[k] + SetSumSq(v, S \ {k})

RmsField(r, axis) ==
    CASE axis = "x" -> r.x_rms [] axis = "y" -> r.y_rms [] axis = "z" -> r.z_rms

\* C8: at every row i the rolling RMS of each axis is taken over exactly the
\* rows k with i - win < k <= i (the current sample, no later one); it is
\* defined at every row, equals |v[i]| when win = 1 and |v| for a constant
\* signal v.
C8_TrailingWindowRms ==
    pc = "output" =>
        /\ win >= 1
        /\ DOMAIN rms = 1..Len(df_use)
        /\ \A axis \in {"x", "y", "z"}, i \in 1..Len(df_use) :
               LET v == Column(df_use, axis)
                   W == {k \in 1..Len(df_use) : k <= i /\ k > i - win}
                   r == RmsField(rms[i], axis)
               IN  /\ r.n = Cardinality(W) /\ r.n >= 1
                   /\ r.ss = SetSumSq(v, W)
                   /\ win = 1 => IsRms(r, Abs(v[i]))
                   /\ (\A k \in 1..Len(v) : v[k] = v[1]) => IsRms(r, Abs(v[1]))

\* a window of 2 samples that leaves out the first of three rows
C8_Witness ==
    /\ pc = "output" /\ win = 2 /\ Len(df_use) = 3
    /\ rms[3].x_rms = [ss |-> 425, n |-> 2]
    /\ df_use[1].x = -25 /\ df_use[2].x = 5 /\ df_use[3].x = 20

\* the k-th smallest value of the sequence d
KthSmallest(d, k) ==
    CHOOSE a \in {d[j] : j \in 1..Len(d)} :
        /\ Cardinality({j \in 1..Len(d) : d[j] < a}) < k
        /\ k <= Cardinality({j \in 1..Len(d) : d[j] <= a})

\* C6: the estimate is never negative, NaN or infinite; it is 0 for fewer
\* than 2 samples and for identical timestamps; otherwise it is 1/median of
\* the consecutive differences when that median is > 0 and 0 when not.
C6_SampleRateEstimate ==
    pc = "output" =>
        LET n == Len(df_use)
            d == [i \in 1..(n - 1) |-> df_use[i + 1].t - df_use[i].t]
        IN  /\ sr.den > 0 /\ sr.num >= 0
            /\ n < 2 => sr.num = 0
            /\ (\A i \in 1..n : df_use[i].t = df_use[1].t) => sr.num = 0
            /\ n >= 2 =>
                 LET twice == KthSmallest(d, n \div 2) + KthSmallest(d, (n + 1) \div 2)
                 IN  IF twice > 0 THEN sr.num > 0 /\ sr.num * twice = 2 * sr.den
                     ELSE sr.num = 0

\* three samples with one timestamp: median interval 0, rate 0
C6_Witness ==
    /\ pc = "output" /\ Len(df_use) = 3
    /\ df_use[1].t = df_use[3].t
    /\ sr.num = 0

(***************************************************************************)
(* Properties of the batch loop and of the single-sheet run                *)
(***************************************************************************)
\* every required column is there, whatever its case
ColumnsPresent(s) == \A col \in expected : \E c \in s.columns : Lower(c) = col

\* no row of the sheet has all four cells and a timestamp
NoUsableRow(s) ==
    \A i \in 1..Len(s.rows) :
        LET r == s.rows[i]
        IN  r.t.kind # "time" \/ r.x.kind = "null" \/ r.y.kind = "null" \/ r.z.kind = "null"

\* handling the sheet fails: it cannot be read, lacks a column, or has no
\* usable row (its diagnosis raises with pandas before 1.5 and is a frame
\* without rows from 1.5 on)
Fails(s) == ~s.readable \/ ~ColumnsPresent(s) \/ NoUsableRow(s)

\* the rows diagnosed for a sheet under the cap n
FaultsOfSheet(s, n) ==
    LET prepared == prepare_sheet(s)
    IN  diagnose_faults(Cap(prepared.df_use, n), prepared.sr).faults

C1_Inv ==
    mode = "multi" =>
        /\ ~crashed /\ pc \in {"loop", "done"}
        /\ pc = "done" => idx = total
        /\ Len(workbook) = idx
        /\ \A j \in 1..Len(diagnosis_summary) : ~Fails(workbook[diagnosis_summary[j].sheet])

C1_Step ==
    (pc = "loop" /\ idx < total) =>
        /\ pc' = "loop" /\ idx' = idx + 1 /\ ~crashed'
        /\ Fails(workbook'[idx + 1]) => diagnosis_summary' = diagnosis_summary

\* C1: in multi-sheet mode a sheet that fails (unreadable, missing column,
\* no usable row, any exception of the loop body) never aborts the batch:
\* the loop moves on to the next sheet until all are handled, the failed
\* sheet adds no entry to the summary, and no exception escapes.
C1_BatchNeverAborts == []C1_Inv /\ [][C1_Step]_vars

\* two failed sheets followed by a diagnosed one
C1_Witness ==
    /\ pc = "done" /\ total = 3
    /\ ~workbook[1].readable
    /\ workbook[2].readable /\ ~ColumnsPresent(workbook[2])
    /\ Len(diagnosis_summary) = 1 /\ diagnosis_summary[1].sheet = 3

\* three sheets were handled: one lacks a required column, two are valid
C2_Scenario ==
    /\ mode = "multi" /\ pc = "done" /\ total = 3
    /\ Cardinality({k \in 1..3 : workbook[k].readable /\ ~ColumnsPresent(workbook[k])}) = 1
    /\ Cardinality({k \in 1..3 : workbook[k].readable /\ ColumnsPresent(workbook[k])}) = 2

\* C2 as claimed: such a workbook yields exactly 2 entries, whatever the
\* data of the two valid sheets, and no exception escapes.
C2_TwoEntriesWhateverData ==
    C2_Scenario => (Len(diagnosis_summary) = 2 /\ ~crashed)

\* C2 amended: the aggregate result holds exactly one entry per valid sheet
\* that has at least one row with a triggered label; the three-sheet
\* workbook yields at most 2 entries, 2 when both valid sheets have such a
\* row, and no exception escapes.
C2_EntryPerSheetWithFaults ==
    (mode = "multi" /\ pc = "done") =>
        LET hit == {k \in 1..total :
                       /\ workbook[k].readable /\ ColumnsPresent(workbook[k])
                       /\ FaultsOfSheet(workbook[k], max_rows) # <<>>}
        IN  /\ ~crashed
            /\ Len(diagnosis_summary) = Cardinality(hit)
            /\ {diagnosis_summary[j].sheet : j \in 1..Len(diagnosis_summary)} = hit
            /\ C2_Scenario => Len(diagnosis_summary) <= 2

C2_Witness ==
    /\ C2_Scenario
    /\ ~ColumnsPresent(workbook[2])
    /\ Len(diagnosis_summary) = 2

\* C7: a schema-valid sheet with fewer than 2 usable rows never makes the
\* run end in an unhandled exception, in single-sheet mode and in
\* multi-sheet mode.
C7_InsufficientDataHandled ==
    /\ mode = "multi" => ~crashed
    /\ (/\ mode = "single" /\ df_raw.readable /\ ColumnsPresent(df_raw)
        /\ Len(prepare_sheet(df_raw).df_use) < 2) => ~crashed

\* passed is the last min(Len(full), n) rows of full, in ascending order
IsTailOf(passed, full, n) ==
    /\ Len(passed) = Min(Len(full), n)
    /\ \A j \in 1..Len(passed) : passed[j] = full[Len(full) - Len(passed) + j]
    /\ \A j \in 2..Len(passed) : passed[j - 1].t <= passed[j].t

\* the batch loop's last sheet was handed to diagnose_faults
BatchDiagnosed ==
    mode = "multi" /\ idx >= 1 /\ workbook[idx].readable /\ ColumnsPresent(workbook[idx])

\* C9 as claimed: in both modes the rows passed to diagnose_faults are the
\* last min(M, N) rows of the prepared sheet's M sorted rows.
C9_CapOnPreparedSheet ==
    /\ BatchDiagnosed => IsTailOf(df_use, prepare_sheet(df_raw).df_use, max_rows)
    /\ pc = "diagnosed" => IsTailOf(df_filtered, prepare_sheet(df_raw).df_use, max_rows)

\* the rows of the sorted sequence inside the selected data window
InWindow(full, dur) ==
    LET latest == CHOOSE m \in {full[i].t : i \in 1..Len(full)} :
                      \A i \in 1..Len(full) : full[i].t <= m
        since == CASE dur = "Last 24 hours" -> latest - DaySeconds
                   [] dur = "Last 7 days" -> latest - WeekSeconds
                   [] OTHER -> latest - latest - 1
        Recent(r) == r.t >= since
    IN  IF full = <<>> THEN <<>> ELSE SelectSeq(full, Recent)

\* C9 amended: in multi-sheet mode the rows passed to diagnose_faults are
\* the last min(M, N) rows of the prepared sheet's M sorted rows; in
\* single-sheet mode the cap applies to the M' rows left by the data-window
\* filter: whenever diagnose_faults is called it is passed the last
\* min(M', N) of those rows, in ascending order of time.
C9_CapOnSelectedRows ==
    /\ BatchDiagnosed => IsTailOf(df_use, prepare_sheet(df_raw).df_use, max_rows)
    /\ pc = "diagnosed" =>
           IsTailOf(df_filtered, InWindow(prepare_sheet(df_raw).df_use, duration), max_rows)

\* a sheet of more than N = 10 rows, stored in descending order, capped
C9_Witness ==
    /\ mode = "multi" /\ pc = "done" /\ max_rows = MinCap
    /\ Len(df_raw.rows) > MinCap /\ Len(df_use) = MinCap
    /\ df_raw.rows[1].t.v > df_raw.rows[2].t.v

C10_Inv ==
    mode = "multi" =>
        \A j \in 1..Len(diagnosis_summary) :
            LET e == diagnosis_summary[j]
            IN  /\ e.sheet \in 1..idx
                /\ j > 1 => diagnosis_summary[j - 1].sheet < e.sheet
                /\ e.faults = FaultsOfSheet(workbook[e.sheet], max_rows)

C10_Step ==
    pc = "loop" =>
        \/ diagnosis_summary' = diagnosis_summary
        \/ /\ Len(diagnosis_summary') = Len(diagnosis_summary) + 1
           /\ SubSeq(diagnosis_summary', 1, Len(diagnosis_summary)) = diagnosis_summary
           /\ diagnosis_summary'[Len(diagnosis_summary')].sheet = idx + 1

\* C10: after any prefix of the sheets the summary lists entries in workbook
\* order, at most one per sheet, each tagged with the sheet whose rows it
\* holds; handling a further sheet leaves the summary alone or appends one
\* entry for that sheet, and never changes an earlier entry.
C10_SummaryOnlyGrows == []C10_Inv /\ [][C10_Step]_vars

\* entries for sheets 1 and 3, sheet 2 skipped
C10_Witness ==
    /\ pc = "done" /\ Len(diagnosis_summary) = 2
    /\ diagnosis_summary[1].sheet = 1 /\ diagnosis_summary[2].sheet = 3
    /\ diagnosis_summary[1].faults # diagnosis_summary[2].faults

====
